---- MODULE Spec2Model ----
(***************************************************************************)
(* Model of scripts/process_friendlinks.py: one run of main() after the    *)
(* other over a persisted directory file and an issue tracker.             *)
(*                                                                         *)
(* Strings are kept as strings; the three conversions of the script are    *)
(* modelled by what they do:                                               *)
(*   - parse_issue_body works over the lines of the body;                  *)
(*   - a source date of a feed is [ok, secs]: ok says whether dateutil     *)
(*     parses it, secs is the instant it names (seconds since 1970-01-01   *)
(*     00:00, process time zone UTC);                                      *)
(*   - a stored 'published' string is [fmt, v]: fmt = "canon" is a string  *)
(*     in '%Y-%m-%d %H:%M' form naming minute v since the epoch, "raw" is  *)
(*     a string strptime rejects (v identifies it), "empty" is ''.         *)
(***************************************************************************)
EXTENDS Integers, Sequences, FiniteSets, TLC

\* ---- bounds of the model -------------------------------------------------
MaxRuns == 2        \* runs of main() in a behaviour
MaxIssue == 2       \* issue numbers are 1..MaxIssue
MaxComments == 2    \* comments kept per issue on the tracker
MaxFaults == 1      \* failed tracker requests and crashes in a behaviour
MaxLabels == 3      \* labels of an issue in SpecLabels

\* ---- program constants ---------------------------------------------------
max_retries == 3        \* check_website_with_retry(url, max_retries=3)
NumDnsServers == 3      \* len(dns_servers) in resolve_domain
max_posts == 3          \* fetch_rss_with_fallback(feed_url, max_posts=3)

STATUS_LABELS == {"online", "offline", "restricted", "approved", "pending"}
APP_LABEL == "friend-link"          \* the application label of the tracker
LABEL_ONLINE == "online"
LABEL_RESTRICTED == "restricted"
LABEL_APPROVED == "approved"

REQUIRED_KEYS == <<"title", "url", "feed">>

\* section markers of parse_issue_body's patterns
patterns == [title |-> "### name", url |-> "### url", avatar |-> "### avatar",
             description |-> "### description", feed |-> "### feed"]
PatternKeys == DOMAIN patterns

Issues == 1..MaxIssue
BOT == "bot"            \* login of the authenticated user
NullUser == "<null>"    \* a comment whose "user" is JSON null

\* ---- inputs ----------------------------------------------------------------
BodyA == <<"### name", "", "Blog A", "", "### url", "", "https://a.example", "",
           "### avatar", "", "https://a.example/a.png", "",
           "### description", "", "first", "",
           "### feed", "", "https://a.example/feed">>
BodyB == <<"### name", "Blog B", "### url", "https://a.example",
           "### feed", "https://a.example/feed">>
BodyNoFeed == <<"### name", "", "Blog A", "", "### url", "", "https://a.example",
                "", "### feed", "">>
BodyNoTitle == <<"### url", "https://a.example",
                 "### feed", "https://a.example/feed">>
Bodies == {BodyA, BodyB, BodyNoFeed, BodyNoTitle}
\* the body an issue shows in run r: BodyB is BodyA after its author edited
\* the title, which happens after the first run
BodiesAt(r) == IF r <= 1 THEN Bodies \ {BodyB} ELSE Bodies

\* feeds as feedparser hands them over: entries with optional attributes
FeedNew == << [title |-> "n1", link |-> "https://a.example/1",
               published |-> [ok |-> TRUE, secs |-> 125]],
              [title |-> "n2", link |-> "https://a.example/2",
               published |-> [ok |-> TRUE, secs |-> 300]],
              [link |-> "https://a.example/3"],
              [title |-> "n4", link |-> "https://a.example/4",
               updated |-> [ok |-> TRUE, secs |-> 60]] >>
FeedEpoch == << [title |-> "e1", link |-> "https://b.example/1",
                 published |-> [ok |-> TRUE, secs |-> 30]] >>
FeedRaw == << [title |-> "r1", link |-> "https://c.example/1",
               updated |-> [ok |-> FALSE, secs |-> 1]] >>
FeedEmpty == << >>
Feeds == {FeedNew, FeedEpoch, FeedRaw, FeedEmpty}

InitialLabels(n) ==
    IF n = 1 THEN <<APP_LABEL>> ELSE <<"pending", APP_LABEL, "custom">>
\* issue 1 starts without comments; the later ones may carry a comment of a
\* deleted account ("user": null)
InitialComments(n) ==
    IF n = 1 THEN { << >> } ELSE { << >>, << [user |-> NullUser] >> }

VARIABLES
    file,             \* the data file on disk: [exists, complete, content]
    trackerLabels,    \* issue number -> labels of the issue on the tracker
    trackerComments,  \* issue number -> comments of the issue on the tracker
    run,              \* number of runs of main() started so far (the clock)
    faults,           \* failed tracker requests and crashes so far
    EVENT_NAME,       \* environment of the running process
    ISSUE_NUMBER,     \* environment of the running process (0: not set)
    pc,               \* position of the running process ("idle": none)
    data,             \* data['content'] of the running process
    issues,           \* main: the list returned by get_all_issues (numbers)
    idx,              \* main: position of the batch loop in issues
    success_count,    \* main
    fail_count,       \* main
    issue,            \* process_single_issue: the issue argument
    info,             \* process_single_issue: parse_issue_body's result
    website_online,   \* process_single_issue
    posts,            \* process_single_issue
    result,           \* process_single_issue: "none", "True", "False", "raised"
    probe,            \* check_website_robust: position, loop index, result
    attempts,         \* network attempts of the probe (counted in SpecProbe)
    fetch,            \* fetch_rss_with_fallback: position and attempts made
    trackerReqs,      \* requests sent to the tracker by this call
    dataBefore,       \* data['content'] when process_single_issue was entered
    processed,        \* issue numbers handed to process_single_issue this run
    upsert_count      \* entries written into data['content'] this run

vars == <<file, trackerLabels, trackerComments, run, faults, EVENT_NAME, ISSUE_NUMBER,
          pc, data, issues, idx, success_count, fail_count, issue, info,
          website_online, posts, result, probe, attempts, fetch,
          trackerReqs, dataBefore, processed, upsert_count>>

trackerVars == <<trackerLabels, trackerComments>>
mainVars == <<issues, idx, success_count, fail_count>>
envVars == <<run, EVENT_NAME, ISSUE_NUMBER>>

\* the environment lets `failed` more requests fail (or the process die)
Fault(failed) ==
    /\ faults + failed <= MaxFaults
    /\ faults' = faults + failed
Failed(ok) == IF ok THEN 0 ELSE 1

\* ---- values of the locals while no call is active -------------------------
NoIssue == [number |-> 0, body |-> << >>, labels |-> << >>]
NoInfo == [k \in {} |-> ""]
ProbeOff == [phase |-> "off", attempt |-> 0, online |-> FALSE]
NoAttempts == [gets |-> 0, ipGets |-> 0, resolves |-> 0, tcp |-> 0, ok200 |-> 0]
FetchOff == [phase |-> "off", directFail |-> "none"]
NoFile == [exists |-> FALSE, complete |-> FALSE, content |-> << >>]

\* ---- parse_issue_body -------------------------------------------------------
\* The content line of the section whose marker is line i: the first
\* non-blank line after it (a \s* of the pattern runs over blank lines), 0 if
\* there is none.
ContentLine(body, i) ==
    LET later == {j \in (i + 1)..Len(body) : body[j] # ""}
    IN  IF later = {} THEN 0 ELSE CHOOSE j \in later : \A k \in later : j <= k

\* re.search: the leftmost marker line that has a content line, 0 if none
MatchLine(body, key) ==
    LET hits == {i \in 1..Len(body) :
                    body[i] = patterns[key] /\ ContentLine(body, i) # 0}
    IN  IF hits = {} THEN 0 ELSE CHOOSE i \in hits : \A k \in hits : i <= k

parse_issue_body(body) ==
    [key \in {k \in PatternKeys : MatchLine(body, k) # 0} |->
        body[ContentLine(body, MatchLine(body, key))]]

\* a completeness test that forgets the feed
InfoCompleteNoFeed(inf) == "title" \in DOMAIN inf /\ "url" \in DOMAIN inf

\* all(k in info for k in ['title', 'url', 'feed'])
InfoComplete(inf) ==
    \A i \in 1..Len(REQUIRED_KEYS) : REQUIRED_KEYS[i] \in DOMAIN inf

\* info.get(key, '')
InfoGet(inf, key) == IF key \in DOMAIN inf THEN inf[key] ELSE ""

\* ---- process_feed_entries ---------------------------------------------------
\* date_parser.parse + strftime('%Y-%m-%d %H:%M'), or the raw string
FormatPublished(src) ==
    IF src.ok THEN [fmt |-> "canon", v |-> src.secs \div 60]
    ELSE [fmt |-> "raw", v |-> src.secs]

MakePost(entry) ==
    [title |-> IF "title" \in DOMAIN entry THEN entry.title ELSE "",
     link |-> IF "link" \in DOMAIN entry THEN entry.link ELSE "",
     published |->
        IF "published" \in DOMAIN entry THEN FormatPublished(entry.published)
        ELSE IF "updated" \in DOMAIN entry THEN FormatPublished(entry.updated)
        ELSE [fmt |-> "empty", v |-> 0]]

\* feed.entries[:max_posts]
FirstEntries(entries, n) ==
    SubSeq(entries, 1, IF Len(entries) < n THEN Len(entries) ELSE n)

process_feed_entries(entries, n) ==
    [i \in 1..Len(FirstEntries(entries, n)) |-> MakePost(entries[i])]

\* ---- save_data: the sort ----------------------------------------------------
\* item['_sort_time']
sort_time(item) ==
    IF item.posts # << >>
    THEN IF item.posts[1].published.fmt = "canon"
         THEN item.posts[1].published.v * 60
         ELSE 0
    ELSE 0

\* list.sort(key=..., reverse=True) is stable: an item goes behind every item
\* whose key is greater or equal
InsertSorted(sorted, item) ==
    LET n == Cardinality({i \in 1..Len(sorted) :
                             sort_time(sorted[i]) >= sort_time(item)})
    IN  SubSeq(sorted, 1, n) \o <<item>> \o SubSeq(sorted, n + 1, Len(sorted))

RECURSIVE sort_content(_)
sort_content(content) ==
    IF content = << >> THEN << >>
    ELSE InsertSorted(sort_content(SubSeq(content, 1, Len(content) - 1)),
                      content[Len(content)])

\* ---- process_single_issue: the reconciliation ------------------------------
\* the first index whose entry has this issue_number, 0 for None
existing_index(content, issue_number) ==
    LET hits == {i \in 1..Len(content) : content[i].issue_number = issue_number}
    IN  IF hits = {} THEN 0 ELSE CHOOSE i \in hits : \A k \in hits : i <= k

friend_data(iss, inf, psts, online, now) ==
    [title |-> inf["title"],
     url |-> inf["url"],
     icon |-> InfoGet(inf, "avatar"),
     description |-> InfoGet(inf, "description"),
     feed |-> inf["feed"],
     posts |-> psts,
     issue_number |-> iss.number,
     labels |-> iss.labels,
     last_checked |-> now,
     online |-> online]

\* an upsert that appends whether or not the issue has an entry
upsertAppend(content, entry) == Append(content, entry)

\* an upsert that gives an existing entry only the new posts
upsertPostsOnly(content, entry) ==
    LET i == existing_index(content, entry.issue_number)
    IN  IF i # 0 THEN [content EXCEPT ![i].posts = entry.posts]
        ELSE Append(content, entry)

\* data['content'][existing_index] = friend_data, or append
\* an upsert that overwrites the first entry of a directory that has one
upsertFirst(content, entry) ==
    IF content # << >> THEN [content EXCEPT ![1] = entry]
    ELSE Append(content, entry)

upsert(content, entry) ==
    LET i == existing_index(content, entry.issue_number)
    IN  IF i # 0 THEN [content EXCEPT ![i] = entry]
        ELSE Append(content, entry)

\* a status label that does not look at the probe's result
status_label_online(online) == LABEL_ONLINE

status_label(online) == IF online THEN LABEL_ONLINE ELSE LABEL_RESTRICTED

\* ---- update_issue_labels -----------------------------------------------------
filtered_labels(current_labels) ==
    SelectSeq(current_labels, LAMBDA label : label \notin STATUS_LABELS)

\* a label update that replaces the labels by the new ones
final_labels_replace(current_labels, new_labels) == new_labels

final_labels(current_labels, new_labels) ==
    filtered_labels(current_labels) \o new_labels

\* ---- get_bot_comment_id -------------------------------------------------------
\* The position of the first comment the loop stops at: one of current_user
\* (its id is returned) or one whose user is null (None.get raises). 0: the
\* loop ends and None is returned; RAISED: AttributeError.
RAISED == -1
get_bot_comment_id(comments, current_user) ==
    LET stops == {i \in 1..Len(comments) :
                     comments[i].user = NullUser \/ comments[i].user = current_user}
        first == CHOOSE i \in stops : \A k \in stops : i <= k
    IN  IF stops = {} THEN 0
        ELSE IF comments[first].user = NullUser THEN RAISED
        ELSE first

\* ---- the process ------------------------------------------------------------
IsSingle == EVENT_NAME = "issues" /\ ISSUE_NUMBER # 0

\* the process is gone: every local is dropped
ProcessGone ==
    /\ pc' = "idle"
    /\ EVENT_NAME' = "" /\ ISSUE_NUMBER' = 0
    /\ data' = << >>
    /\ issues' = << >> /\ idx' = 0 /\ success_count' = 0 /\ fail_count' = 0
    /\ issue' = NoIssue /\ info' = NoInfo /\ website_online' = FALSE
    /\ posts' = << >> /\ result' = "none"
    /\ probe' = ProbeOff /\ attempts' = NoAttempts
    /\ fetch' = FetchOff /\ trackerReqs' = 0
    /\ dataBefore' = << >> /\ processed' = << >> /\ upsert_count' = 0

\* process_single_issue(issue, data) is entered
Enter(number, body) ==
    /\ issue' = [number |-> number, body |-> body,
                 labels |-> trackerLabels[number]]
    /\ info' = NoInfo /\ website_online' = FALSE /\ posts' = << >>
    /\ result' = "none" /\ probe' = ProbeOff /\ attempts' = NoAttempts
    /\ fetch' = FetchOff /\ trackerReqs' = 0
    /\ dataBefore' = data
    /\ processed' = Append(processed, number)
    /\ pc' = "psi_parse"

Init ==
    /\ file = NoFile
    /\ trackerLabels = [n \in Issues |-> InitialLabels(n)]
    /\ trackerComments \in {c \in [Issues -> UNION {InitialComments(n) : n \in Issues}] :
                              \A n \in Issues : c[n] \in InitialComments(n)}
    /\ run = 0
    /\ faults = 0
    /\ pc = "idle"
    /\ EVENT_NAME = "" /\ ISSUE_NUMBER = 0
    /\ data = << >>
    /\ issues = << >> /\ idx = 0 /\ success_count = 0 /\ fail_count = 0
    /\ issue = NoIssue /\ info = NoInfo /\ website_online = FALSE
    /\ posts = << >> /\ result = "none"
    /\ probe = ProbeOff /\ attempts = NoAttempts
    /\ fetch = FetchOff /\ trackerReqs = 0
    /\ dataBefore = << >> /\ processed = << >> /\ upsert_count = 0

\* ---- main: start, load_data, dispatch ---------------------------------------
Environments == {<<"issues", n>> : n \in Issues} \cup {<<"schedule", 0>>}

\* json.load of the file; a file that was not written to its end is no JSON
\* document and json.load raises
load_ok(f) == ~f.exists \/ f.complete
load_data(f) == IF f.exists THEN f.content ELSE << >>

StartRun ==
    /\ pc = "idle"
    /\ run < MaxRuns
    /\ run' = run + 1
    /\ \E env \in Environments :
          IF load_ok(file)
          THEN /\ EVENT_NAME' = env[1] /\ ISSUE_NUMBER' = env[2]
               /\ data' = load_data(file)
               /\ pc' = IF env[1] = "issues" /\ env[2] # 0
                        THEN "single_get" ELSE "batch_list"
               /\ UNCHANGED <<issues, idx, success_count, fail_count, issue,
                              info, website_online, posts, result, probe, attempts,
                              fetch, trackerReqs, dataBefore, processed,
                              upsert_count>>
          ELSE ProcessGone
    /\ UNCHANGED <<file, trackerVars, faults>>

\* lines 508-529: GET of the issue, the label test, the call
SingleGet ==
    /\ pc = "single_get"
    /\ \E ok \in BOOLEAN, body \in BodiesAt(run) :
          /\ Fault(Failed(ok))
          /\ IF ok /\ \E i \in 1..Len(trackerLabels[ISSUE_NUMBER]) :
                      trackerLabels[ISSUE_NUMBER][i] = APP_LABEL
             THEN /\ Enter(ISSUE_NUMBER, body)
                  /\ UNCHANGED data
             ELSE /\ pc' = "save"
                  /\ UNCHANGED <<data, issue, info, website_online, posts, result,
                              probe, attempts, fetch, trackerReqs, dataBefore,
                              processed>>
    /\ UNCHANGED <<file, trackerVars, envVars, mainVars, upsert_count>>

\* get_all_issues: the open issues that carry the application label, newest
\* first (the tracker's default order), or [] when the request fails
RECURSIVE Descending(_)
Descending(S) ==
    IF S = {} THEN << >>
    ELSE LET m == CHOOSE x \in S : \A y \in S : y <= x
         IN  <<m>> \o Descending(S \ {m})

HasLabel(labels, l) == \E i \in 1..Len(labels) : labels[i] = l

BatchList ==
    /\ pc = "batch_list"
    /\ \E ok \in BOOLEAN, open \in SUBSET Issues :
          /\ Fault(Failed(ok))
          /\ issues' = IF ok
                       THEN Descending({n \in open :
                                          HasLabel(trackerLabels[n], APP_LABEL)})
                       ELSE << >>
    /\ success_count' = 0 /\ fail_count' = 0
    /\ idx' = 1
    /\ pc' = "loop"
    /\ UNCHANGED <<file, trackerVars, envVars, data, issue, info, website_online,
                   posts, result, probe, attempts, fetch, trackerReqs,
                   dataBefore, processed, upsert_count>>

\* for issue in issues: ... process_single_issue(issue, data)
LoopNext ==
    /\ pc = "loop"
    /\ idx <= Len(issues)
    /\ \E body \in BodiesAt(run) : Enter(issues[idx], body)
    /\ UNCHANGED <<file, trackerVars, envVars, mainVars, data, upsert_count,
                   faults>>

LoopEnd ==
    /\ pc = "loop"
    /\ idx > Len(issues)
    /\ pc' = "save"
    /\ UNCHANGED <<faults, file, trackerVars, envVars, mainVars, data, issue, info,
                   website_online, posts, result, probe, attempts, fetch,
                   trackerReqs, dataBefore, processed, upsert_count>>

\* ---- tracker calls of process_single_issue ----------------------------------
psiLocals == <<issue, info, website_online, posts, probe, attempts, fetch,
               dataBefore, processed>>

\* update_comment_on_issue(issue_number, ...) and then: go to `next` with the
\* call's result `res`.  Two GETs (comments, user), then a PATCH of the bot's
\* comment or a POST of a new one; get_bot_comment_id may raise.
update_comment_on_issue(next, res) ==
    \E commentsOk, userOk, writeOk \in BOOLEAN :
        LET n == issue.number
            comments == IF commentsOk THEN trackerComments[n] ELSE << >>
            current_user == IF userOk THEN BOT ELSE ""
            comment_id == get_bot_comment_id(comments, current_user)
        IN  IF comment_id = RAISED
            THEN /\ pc' = "psi_raise" /\ result' = "raised"
                 /\ trackerReqs' = trackerReqs + 2
                 /\ Fault(Failed(commentsOk) + Failed(userOk))
                 /\ UNCHANGED trackerComments
            ELSE /\ pc' = next /\ result' = res
                 /\ trackerReqs' = trackerReqs + 3
                 /\ Fault(Failed(commentsOk) + Failed(userOk) + Failed(writeOk))
                 /\ IF comment_id = 0 /\ writeOk
                    THEN /\ Len(trackerComments[n]) < MaxComments
                         /\ trackerComments' =
                               [trackerComments EXCEPT
                                   ![n] = Append(@, [user |-> BOT])]
                    ELSE UNCHANGED trackerComments

\* update_issue_labels(issue_number, new_labels) and then: go to `next` with
\* the call's result `res`.  get_issue, then a PUT of final_labels.
update_issue_labels(new_labels, next, res) ==
    \E getOk, putOk \in BOOLEAN :
        LET n == issue.number
        IN  /\ pc' = next /\ result' = res
            /\ trackerReqs' = trackerReqs + (IF getOk THEN 2 ELSE 1)
            /\ Fault(Failed(getOk) + (IF getOk THEN Failed(putOk) ELSE 0))
            /\ IF getOk /\ putOk
               THEN trackerLabels' =
                       [trackerLabels EXCEPT ![n] = final_labels(@, new_labels)]
               ELSE UNCHANGED trackerLabels

\* ---- process_single_issue ------------------------------------------------------
ProbeStart == [ProbeOff EXCEPT !.phase = "get"]
FetchStart == [FetchOff EXCEPT !.phase = "direct"]

\* lines 403-414
Parse ==
    /\ pc = "psi_parse"
    /\ info' = parse_issue_body(issue.body)
    /\ IF InfoComplete(info')
       THEN pc' = "probe" /\ probe' = ProbeStart
       ELSE pc' = "psi_incomplete" /\ UNCHANGED probe
    /\ UNCHANGED <<faults, file, trackerVars, envVars, mainVars, data, issue,
                   website_online, posts, result, attempts, fetch, trackerReqs,
                   dataBefore, processed, upsert_count>>

\* lines 405-412
RejectIncomplete ==
    /\ pc = "psi_incomplete"
    /\ update_comment_on_issue("psi_return", "False")
    /\ UNCHANGED <<file, trackerLabels, envVars, mainVars, data, psiLocals,
                   upsert_count>>

\* lines 424-429
ProbeFailedComment ==
    /\ pc = "psi_probe_failed"
    /\ update_comment_on_issue("fetch", "none")
    /\ UNCHANGED <<file, trackerLabels, envVars, mainVars, data, psiLocals,
                   upsert_count>>

\* lines 437-442
RejectFeedComment ==
    /\ pc = "psi_reject_comment"
    /\ update_comment_on_issue("psi_reject_labels", "none")
    /\ UNCHANGED <<file, trackerLabels, envVars, mainVars, data, psiLocals,
                   upsert_count>>

\* lines 444-445
RejectFeedLabels ==
    /\ pc = "psi_reject_labels"
    /\ update_issue_labels(<<status_label(website_online)>>, "psi_return", "False")
    /\ UNCHANGED <<file, trackerComments, envVars, mainVars, data, psiLocals,
                   upsert_count>>

\* lines 449-472 and 481
Upsert ==
    /\ pc = "psi_upsert"
    /\ data' = upsert(data, friend_data(issue, info, posts, website_online, run))
    /\ upsert_count' = upsert_count + 1
    /\ pc' = "psi_accept_comment"
    /\ UNCHANGED <<faults, file, trackerVars, envVars, mainVars, psiLocals, result,
                   trackerReqs>>

\* lines 474-477 and 483-486
AcceptComment ==
    /\ pc = "psi_accept_comment"
    /\ update_comment_on_issue("psi_accept_labels", "none")
    /\ UNCHANGED <<file, trackerLabels, envVars, mainVars, data, psiLocals,
                   upsert_count>>

\* lines 479 and 488-491
AcceptLabels ==
    /\ pc = "psi_accept_labels"
    /\ update_issue_labels(<<status_label(website_online), LABEL_APPROVED>>,
                           "psi_return", "True")
    /\ UNCHANGED <<file, trackerComments, envVars, mainVars, data, psiLocals,
                   upsert_count>>

\* ---- resolve_domain -------------------------------------------------------------
\* One gethostbyname per entry of dns_servers until one returns: the address
\* found and the tries made, or None after a try per server.
ResolveOutcomes ==
    {[ip |-> TRUE, tries |-> k] : k \in 1..NumDnsServers}
        \cup {[ip |-> FALSE, tries |-> NumDnsServers]}

\* ---- check_website_robust / check_website_with_retry ----------------------------
\* the for loop of check_website_with_retry after a failed attempt: the next
\* attempt, or (range exhausted, return False) method 2 of check_website_robust
\* a retry that repeats the failed attempt without counting it
NextAttemptAgain(p) == [p EXCEPT !.phase = "get"]

\* a retry that goes to the IP-literal GET whatever made the attempt fail
NextAttemptByIp(p) ==
    [p EXCEPT !.attempt = p.attempt + 1,
              !.phase = IF p.attempt + 1 < max_retries THEN "ipget" ELSE "resolve_tcp"]

NextAttempt(p) ==
    [p EXCEPT !.attempt = p.attempt + 1,
              !.phase = IF p.attempt + 1 < max_retries THEN "get" ELSE "resolve_tcp"]

\* a probe that makes its next direct GET after a response with status 200
ProbeResultGoOn(p, online) ==
    IF online /\ p.phase = "get" THEN NextAttempt(p)
    ELSE [p EXCEPT !.phase = "done", !.online = online]

ProbeResult(p, online) == [p EXCEPT !.phase = "done", !.online = online]

probeFrame == <<faults, file, trackerVars, envVars, mainVars, data, issue, info,
                website_online, posts, result, fetch, trackerReqs, dataBefore,
                processed, upsert_count, pc>>

\* Each step of the probe is written once, with the network attempts it makes
\* (gets, ipGets, resolves, tcp) and the responses with status 200 it got
\* (ok200); `count` says whether the step adds them to `attempts`: the
\* program keeps no such counters, SpecProbe does.
Counted(count, gets, ipGets, resolves, tcp, ok200) ==
    attempts' = IF count
                THEN [gets |-> attempts.gets + gets,
                      ipGets |-> attempts.ipGets + ipGets,
                      resolves |-> attempts.resolves + resolves,
                      tcp |-> attempts.tcp + tcp,
                      ok200 |-> attempts.ok200 + ok200]
                ELSE attempts

\* lines 62-74 and the except clauses of lines 75-77, 101-103
ProbeGetStep(count) ==
    /\ pc = "probe" /\ probe.phase = "get"
    /\ \E response \in {"200", "non200", "NameResolutionError",
                        "ConnectionError", "Exception"} :
          /\ probe' = CASE response = "200" -> ProbeResult(probe, TRUE)
                       [] response = "NameResolutionError" ->
                              [probe EXCEPT !.phase = "resolve_retry"]
                       [] OTHER -> NextAttempt(probe)
          /\ Counted(count, 1, 0, 0, 0, IF response = "200" THEN 1 ELSE 0)
    /\ UNCHANGED probeFrame

\* lines 78-83
ProbeResolveRetryStep(count) ==
    /\ pc = "probe" /\ probe.phase = "resolve_retry"
    /\ \E r \in ResolveOutcomes :
          /\ probe' = IF r.ip THEN [probe EXCEPT !.phase = "ipget"]
                      ELSE NextAttempt(probe)
          /\ Counted(count, 0, 0, r.tries, 0, 0)
    /\ UNCHANGED probeFrame

\* lines 84-100
ProbeIpGetStep(count) ==
    /\ pc = "probe" /\ probe.phase = "ipget"
    /\ \E response \in {"200", "non200", "Exception"} :
          /\ probe' = IF response = "200" THEN ProbeResult(probe, TRUE)
                      ELSE NextAttempt(probe)
          /\ Counted(count, 0, 1, 0, 0, IF response = "200" THEN 1 ELSE 0)
    /\ UNCHANGED probeFrame

\* lines 116-128 and 142-144
ProbeResolveTcpStep(count) ==
    /\ pc = "probe" /\ probe.phase = "resolve_tcp"
    /\ \/ \E r \in ResolveOutcomes :
             /\ probe' = IF r.ip THEN [probe EXCEPT !.phase = "tcp"]
                         ELSE ProbeResult(probe, FALSE)
             /\ Counted(count, 0, 0, r.tries, 0, 0)
       \/ /\ probe' = ProbeResult(probe, FALSE)      \* urlparse or .port raises
          /\ UNCHANGED attempts
    /\ UNCHANGED probeFrame

\* lines 130-144
ProbeTcpStep(count) ==
    /\ pc = "probe" /\ probe.phase = "tcp"
    /\ \E connect_ex \in {"0", "errno", "Exception"} :
          probe' = ProbeResult(probe, connect_ex = "0")
    /\ Counted(count, 0, 0, 0, 1, 0)
    /\ UNCHANGED probeFrame

ProbeGet == ProbeGetStep(FALSE)
ProbeResolveRetry == ProbeResolveRetryStep(FALSE)
ProbeIpGet == ProbeIpGetStep(FALSE)
ProbeResolveTcp == ProbeResolveTcpStep(FALSE)
ProbeTcp == ProbeTcpStep(FALSE)

\* line 418: website_online = check_website_robust(info['url'])
ProbeReturn ==
    /\ pc = "probe" /\ probe.phase = "done"
    /\ website_online' = probe.online
    /\ probe' = [ProbeOff EXCEPT !.phase = "returned"]
    /\ attempts' = NoAttempts
    /\ pc' = IF probe.online THEN "fetch" ELSE "psi_probe_failed"
    /\ UNCHANGED <<faults, file, trackerVars, envVars, mainVars, data, issue, info,
                   posts, result, fetch, trackerReqs, dataBefore, processed,
                   upsert_count>>

\* ---- fetch_rss_with_fallback -----------------------------------------------------
fetchFrame == <<faults, file, trackerVars, envVars, mainVars, data, issue, info,
                website_online, result, probe, attempts, trackerReqs,
                dataBefore, processed, upsert_count>>

\* line 435 and 437: posts = ...; if not posts
FetchReturn(psts) ==
    /\ posts' = psts
    /\ fetch' = [FetchOff EXCEPT !.phase = "returned"]
    /\ pc' = IF psts = << >> THEN "psi_reject_comment" ELSE "psi_upsert"

\* line 435: the call
FetchCall ==
    /\ pc = "fetch" /\ fetch.phase = "off"
    /\ fetch' = FetchStart
    /\ UNCHANGED <<posts, pc>>
    /\ UNCHANGED fetchFrame

\* lines 153-160
FetchDirect ==
    /\ pc = "fetch" /\ fetch.phase = "direct"
    /\ \/ \E feed \in Feeds :
             FetchReturn(process_feed_entries(feed, max_posts))
       \/ \E failure \in {"NameResolutionError", "HTTPError"} :
             /\ fetch' = [fetch EXCEPT !.phase = "resolve",
                                       !.directFail = failure]
             /\ UNCHANGED <<posts, pc>>
    /\ UNCHANGED fetchFrame

\* lines 163-169, 177-182
FetchResolve ==
    /\ pc = "fetch" /\ fetch.phase = "resolve"
    /\ \E r \in ResolveOutcomes :
          IF r.ip
          THEN /\ fetch' = [fetch EXCEPT !.phase = "ipget"]
               /\ UNCHANGED <<posts, pc>>
          ELSE FetchReturn(<< >>)
    /\ UNCHANGED fetchFrame

\* lines 170-182
FetchIpGet ==
    /\ pc = "fetch" /\ fetch.phase = "ipget"
    /\ \/ \E feed \in Feeds :
             FetchReturn(process_feed_entries(feed, max_posts))
       \/ FetchReturn(<< >>)
    /\ UNCHANGED fetchFrame

\* ---- main: after process_single_issue --------------------------------------------
callLocalsReset ==
    /\ issue' = NoIssue /\ info' = NoInfo /\ website_online' = FALSE
    /\ posts' = << >> /\ result' = "none"
    /\ probe' = ProbeOff /\ attempts' = NoAttempts
    /\ fetch' = FetchOff /\ trackerReqs' = 0
    /\ dataBefore' = << >>

\* lines 540-544: the call returned
BatchReturn ==
    /\ pc = "psi_return" /\ ~IsSingle
    /\ IF result = "True"
       THEN success_count' = success_count + 1 /\ UNCHANGED fail_count
       ELSE fail_count' = fail_count + 1 /\ UNCHANGED success_count
    /\ idx' = idx + 1
    /\ pc' = "loop"
    /\ callLocalsReset
    /\ UNCHANGED <<faults, file, trackerVars, envVars, data, issues, processed,
                   upsert_count>>

\* lines 545-549: the call raised
BatchExcept ==
    /\ pc = "psi_raise" /\ ~IsSingle
    /\ fail_count' = fail_count + 1
    /\ idx' = idx + 1
    /\ pc' = "loop"
    /\ callLocalsReset
    /\ UNCHANGED <<faults, file, trackerVars, envVars, data, issues, success_count,
                   processed, upsert_count>>

\* line 522: the call returned; its value is dropped
SingleReturn ==
    /\ pc = "psi_return" /\ IsSingle
    /\ pc' = "save"
    /\ callLocalsReset
    /\ UNCHANGED <<faults, file, trackerVars, envVars, mainVars, data, processed,
                   upsert_count>>

\* an exception of the call that is not caught: main ends without saving
SingleExceptUncaught ==
    /\ pc = "psi_raise" /\ IsSingle
    /\ ProcessGone
    /\ UNCHANGED <<file, trackerVars, run, faults>>

\* lines 526-529: the call raised
SingleExcept ==
    /\ pc = "psi_raise" /\ IsSingle
    /\ pc' = "save"
    /\ callLocalsReset
    /\ UNCHANGED <<faults, file, trackerVars, envVars, mainVars, data, processed,
                   upsert_count>>

\* ---- save_data ----------------------------------------------------------------------
saveFrame == <<faults, trackerVars, envVars, mainVars, issue, info, website_online,
               posts, result, probe, attempts, fetch, trackerReqs, dataBefore,
               processed, upsert_count>>

\* lines 372-386
SaveSort ==
    /\ pc = "save"
    /\ data' = sort_content(data)
    /\ pc' = "save_open"
    /\ UNCHANGED file
    /\ UNCHANGED saveFrame

\* line 388: open(DATA_FILE, 'w') creates the file or cuts it to length 0
SaveOpen ==
    /\ pc = "save_open"
    /\ file' = [exists |-> TRUE, complete |-> FALSE, content |-> << >>]
    /\ pc' = "save_dump"
    /\ UNCHANGED data
    /\ UNCHANGED saveFrame

\* line 389: json.dump writes the document to the file piece by piece
SaveDump ==
    /\ pc = "save_dump"
    /\ Len(file.content) < Len(data)
    /\ file' = [file EXCEPT !.content = Append(@, data[Len(@) + 1])]
    /\ UNCHANGED <<pc, data>>
    /\ UNCHANGED saveFrame

\* the last piece is written and the with block closes the file; main returns
SaveClose ==
    /\ pc = "save_dump"
    /\ Len(file.content) = Len(data)
    /\ file' = [file EXCEPT !.complete = TRUE]
    /\ ProcessGone
    /\ UNCHANGED <<trackerVars, run, faults>>

\* ---- the process dies (killed, runner lost, power) --------------------------------
Crash ==
    /\ pc # "idle"
    /\ Fault(1)
    /\ ProcessGone
    /\ UNCHANGED <<file, trackerVars, run>>

Next ==
    \/ StartRun \/ SingleGet \/ BatchList \/ LoopNext \/ LoopEnd
    \/ Parse \/ RejectIncomplete
    \/ ProbeGet \/ ProbeResolveRetry \/ ProbeIpGet \/ ProbeResolveTcp
    \/ ProbeTcp \/ ProbeReturn \/ ProbeFailedComment
    \/ FetchCall \/ FetchDirect \/ FetchResolve \/ FetchIpGet
    \/ RejectFeedComment \/ RejectFeedLabels
    \/ Upsert \/ AcceptComment \/ AcceptLabels
    \/ BatchReturn \/ BatchExcept \/ SingleReturn \/ SingleExcept
    \/ SaveSort \/ SaveOpen \/ SaveDump \/ SaveClose
    \/ Crash

Spec == Init /\ [][Next]_vars

\* ---- the probe alone, its network attempts counted --------------------------------
\* a call of process_single_issue that has parsed `body` and reached line 418
MidCall(n, body) ==
    /\ file = NoFile
    /\ run = 1 /\ faults = 0
    /\ EVENT_NAME = "issues" /\ ISSUE_NUMBER = n
    /\ issues = << >> /\ idx = 0 /\ success_count = 0 /\ fail_count = 0
    /\ issue = [number |-> n, body |-> body, labels |-> trackerLabels[n]]
    /\ info = parse_issue_body(body)
    /\ result = "none" /\ trackerReqs = 0
    /\ dataBefore = << >> /\ processed = <<n>>
    /\ attempts = NoAttempts

ProbeInit ==
    /\ trackerLabels = [n \in Issues |-> InitialLabels(n)]
    /\ trackerComments \in {c \in [Issues -> UNION {InitialComments(n) : n \in Issues}] :
                              \A n \in Issues : c[n] \in InitialComments(n)}
    /\ \E n \in Issues, body \in {BodyA, BodyB} : MidCall(n, body)
    /\ pc = "probe" /\ probe = ProbeStart /\ fetch = FetchOff
    /\ data = << >> /\ upsert_count = 0
    /\ website_online = FALSE /\ posts = << >>

ProbeGetCounted == ProbeGetStep(TRUE)
ProbeResolveRetryCounted == ProbeResolveRetryStep(TRUE)
ProbeIpGetCounted == ProbeIpGetStep(TRUE)
ProbeResolveTcpCounted == ProbeResolveTcpStep(TRUE)
ProbeTcpCounted == ProbeTcpStep(TRUE)

ProbeNext ==
    \/ ProbeGetCounted \/ ProbeResolveRetryCounted \/ ProbeIpGetCounted
    \/ ProbeResolveTcpCounted \/ ProbeTcpCounted

SpecProbe == ProbeInit /\ [][ProbeNext]_vars

\* ---- update_issue_labels alone, over the label lists an issue can carry -----------
LabelUniverse == STATUS_LABELS \cup {APP_LABEL, "custom"}

\* the lists of distinct labels of at most MaxLabels labels
LabelLists ==
    {l \in UNION {[1..k -> LabelUniverse] : k \in 0..MaxLabels} :
        \A i, j \in DOMAIN l : i # j => l[i] # l[j]}

LabelsInit ==
    /\ trackerLabels \in {t \in [Issues -> LabelLists] :
                             \A n \in Issues \ {1} : t[n] = InitialLabels(n)}
    /\ trackerComments = [n \in Issues |-> << >>]
    /\ MidCall(1, BodyA)
    /\ probe = [ProbeOff EXCEPT !.phase = "returned"]
    /\ fetch = [FetchOff EXCEPT !.phase = "returned"]
    /\ website_online \in BOOLEAN
    /\ \/ /\ pc = "psi_reject_labels"
          /\ posts = << >> /\ data = << >> /\ upsert_count = 0
       \/ /\ pc \in {"psi_accept_labels", "update_issue_labels"}
          /\ posts = process_feed_entries(FeedNew, max_posts)
          /\ data = <<friend_data(issue, info, posts, website_online, run)>>
          /\ upsert_count = 1

\* lines 320-346 called with any list of labels as new_labels
UpdateLabelsAny ==
    /\ pc = "update_issue_labels"
    /\ \E new_labels \in LabelLists :
          update_issue_labels(new_labels, "psi_return", "True")
    /\ UNCHANGED <<file, trackerComments, envVars, mainVars, data, psiLocals,
                   upsert_count>>

LabelsNext == RejectFeedLabels \/ AcceptLabels \/ UpdateLabelsAny

SpecLabels == LabelsInit /\ [][LabelsNext]_vars

\* ==== the claims =======================================================================
InCall == pc \in {"psi_parse", "psi_incomplete", "probe", "psi_probe_failed",
                  "fetch", "psi_reject_comment", "psi_reject_labels",
                  "psi_upsert", "psi_accept_comment", "psi_accept_labels",
                  "psi_return", "psi_raise"}
CallEnded == pc \in {"psi_return", "psi_raise"}
EntriesOf(content, n) == {i \in 1..Len(content) : content[i].issue_number = n}
Lacking(inf) == \E k \in {"title", "url", "feed"} : k \notin DOMAIN inf
LabelSet(labels) == {labels[i] : i \in 1..Len(labels)}

\* C1: whatever calls of process_single_issue were made, no two entries of the
\* directory (in memory and on disk) carry the same issue_number.
C1_OneEntryPerIssue ==
    /\ \A n \in Issues : Cardinality(EntriesOf(data, n)) <= 1
    /\ \A n \in Issues : Cardinality(EntriesOf(file.content, n)) <= 1

\* the issue of this call had an entry, the directory holds another issue's
\* entry too, and the call has written its entry
C1_Witness ==
    /\ pc = "psi_accept_comment"
    /\ EntriesOf(dataBefore, issue.number) # {}
    /\ Len(data) = 2

\* C2: when an issue that already has an entry (its first accepted outcome) is
\* reconciled again, the directory holds exactly one entry for it and every
\* field of that entry is the one of the second outcome.
C2_SecondMergeWins ==
    (pc = "psi_accept_comment" /\ EntriesOf(dataBefore, issue.number) # {}) =>
        /\ Cardinality(EntriesOf(data, issue.number)) = 1
        /\ \A i \in EntriesOf(data, issue.number) :
              /\ data[i].title = info["title"]
              /\ data[i].url = info["url"]
              /\ data[i].icon = InfoGet(info, "avatar")
              /\ data[i].description = InfoGet(info, "description")
              /\ data[i].feed = info["feed"]
              /\ data[i].posts = posts
              /\ data[i].labels = issue.labels
              /\ data[i].online = website_online
              /\ data[i].last_checked = run

\* the second outcome differs from the first in title, description, posts and
\* online flag
C2_Witness ==
    /\ pc = "psi_accept_comment"
    /\ \E i \in EntriesOf(dataBefore, issue.number) :
          /\ dataBefore[i].title = "Blog A" /\ info["title"] = "Blog B"
          /\ dataBefore[i].description # InfoGet(info, "description")
          /\ dataBefore[i].posts # posts
          /\ dataBefore[i].online # website_online

Parseable(item) ==
    item.posts # << >> /\ item.posts[1].published.fmt = "canon"
FirstPostTime(item) == item.posts[1].published.v
PositionOf(content, n) == CHOOSE i \in 1..Len(content) : content[i].issue_number = n

Ordered(before, after) ==
    /\ \A i, j \in 1..Len(after) :
          (i < j /\ Parseable(after[i]) /\ Parseable(after[j])
                 /\ FirstPostTime(after[i]) # FirstPostTime(after[j]))
             => FirstPostTime(after[i]) > FirstPostTime(after[j])
    /\ \A i, j \in 1..Len(after) :
          (Parseable(after[i]) /\ ~Parseable(after[j])) => i < j
    /\ \A i, j \in 1..Len(before) :
          (i < j /\ ~Parseable(before[i]) /\ ~Parseable(before[j]))
             => PositionOf(after, before[i].issue_number)
                   < PositionOf(after, before[j].issue_number)

\* C3: save_data's order. Entries with distinct parseable first-post times are
\* in strictly descending order of that time, every entry without a parseable
\* first-post time is behind every entry with one, and the entries without
\* one keep the order they had.
C3_SavedOrder ==
    [][(pc = "save" /\ pc' = "save_open") => Ordered(data, data')]_vars

\* C4: a call whose feed fetch returned no post returns False and leaves the
\* directory as it was when the call was entered.
C4_EmptyFeedRejected ==
    (CallEnded /\ fetch.phase = "returned" /\ posts = << >>) =>
        (result = "False" /\ data = dataBefore)

\* C5: a call with complete fields whose probe returned False ends rejected
\* only if its feed fetch returned no post; otherwise it returns True with the
\* issue's entry in the directory. An entry written by a call carries the
\* probe's result of that call as its online flag.
C5_ProbeNeverRejects ==
    /\ (CallEnded /\ probe.phase = "returned" /\ ~website_online) =>
          \/ fetch.phase = "returned" /\ posts = << >>
          \/ /\ result = "True"
             /\ EntriesOf(data, issue.number) # {}
    /\ (InCall /\ data # dataBefore) =>
          \A i \in EntriesOf(data, issue.number) :
             data[i].online = website_online

\* C6 as stated: a call whose body lacks a required field returns with no
\* request of any kind made and the directory as it was.
C6_NoRequestAtAll ==
    (pc = "psi_return" /\ Lacking(info)) =>
        /\ probe.phase = "off" /\ fetch.phase = "off"
        /\ trackerReqs = 0
        /\ data = dataBefore

\* C6 as amended: a call whose body lacks a required field is never accepted
\* and never starts the probe or the feed fetch; the requests it makes are
\* the two GETs and the one PATCH or POST of update_comment_on_issue (the two
\* GETs alone when get_bot_comment_id raises), and the directory is as it was.
C6_NoProbeNoFetch ==
    (InCall /\ pc # "psi_parse" /\ Lacking(info)) =>
        /\ probe.phase = "off" /\ fetch.phase = "off"
        /\ data = dataBefore
        /\ result # "True"
        /\ pc \in {"psi_incomplete", "psi_return", "psi_raise"}
        /\ pc = "psi_incomplete" => trackerReqs = 0
        /\ pc = "psi_return" => (trackerReqs = 3 /\ result = "False")
        /\ pc = "psi_raise" => trackerReqs = 2

\* the feed field is missing and the rejection has been commented
C6_Witness ==
    /\ pc = "psi_return" /\ result = "False"
    /\ "feed" \notin DOMAIN info /\ "title" \in DOMAIN info
    /\ trackerReqs = 3

\* C7 as stated: a label update changes the labels of an issue only by status
\* labels, whatever new_labels it is given: what it drops is in STATUS_LABELS
\* and what it adds is in STATUS_LABELS.
C7_OnlyStatusDroppedOrAdded ==
    [][\A n \in Issues :
          /\ LabelSet(trackerLabels[n]) \ LabelSet(trackerLabels'[n])
                \subseteq STATUS_LABELS
          /\ LabelSet(trackerLabels'[n]) \ LabelSet(trackerLabels[n])
                \subseteq STATUS_LABELS]_vars

\* C7 as amended: whatever new_labels a label update is given, what it drops
\* is in STATUS_LABELS, so every other label of the issue is in the list sent
\* to the tracker; what it adds is in STATUS_LABELS when it is called from
\* process_single_issue, whose new_labels are status labels.
C7_LabelsPreserved ==
    [][\A n \in Issues :
          /\ LabelSet(trackerLabels[n]) \ LabelSet(trackerLabels'[n])
                \subseteq STATUS_LABELS
          /\ pc \in {"psi_reject_labels", "psi_accept_labels"} =>
                LabelSet(trackerLabels'[n]) \ LabelSet(trackerLabels[n])
                   \subseteq STATUS_LABELS]_vars

\* an issue that carried 'pending' and two other labels has been relabelled
C7_Witness ==
    /\ pc = "psi_return"
    /\ LabelSet(issue.labels) = {"pending", "custom", APP_LABEL}
    /\ LabelSet(trackerLabels[issue.number])
          = {"custom", APP_LABEL, LABEL_RESTRICTED, LABEL_APPROVED}

ProbeMeasure(p) ==
    CASE p.phase = "get" -> 3 * (max_retries - p.attempt) + 2
      [] p.phase = "resolve_retry" -> 3 * (max_retries - p.attempt) + 1
      [] p.phase = "ipget" -> 3 * (max_retries - p.attempt)
      [] p.phase = "resolve_tcp" -> 2
      [] p.phase = "tcp" -> 1
      [] OTHER -> 0

AttemptsWithinChain ==
    /\ attempts.gets <= max_retries
    /\ attempts.ipGets <= attempts.gets
    /\ attempts.resolves <= NumDnsServers * (attempts.gets + 1)
    /\ attempts.tcp <= 1

\* C8: the probe makes at most max_retries direct GETs, at most one IP-literal
\* GET per direct GET, at most NumDnsServers resolver tries per direct GET and
\* for the TCP check, and at most one TCP connect; until it has its boolean
\* it can always take a step, and every step brings it closer to the end.
C8_ProbeBounded ==
    /\ [](AttemptsWithinChain /\ probe.online \in BOOLEAN)
    /\ [](probe.phase # "done" => ENABLED ProbeNext)
    /\ [][ProbeMeasure(probe') < ProbeMeasure(probe)]_vars

\* every attempt of the chain was made and failed
C8_Witness ==
    /\ probe.phase = "done" /\ ~probe.online
    /\ attempts = [gets |-> max_retries, ipGets |-> max_retries,
                   resolves |-> NumDnsServers * (max_retries + 1), tcp |-> 1,
                   ok200 |-> 0]

\* C9: when the batch loop has ended, every issue of the list was processed
\* once and in order, the two counts add up to the length of the list, and
\* success_count is the number of entries written in this run.
C9_BatchCounts ==
    (pc = "save" /\ ~IsSingle) =>
        /\ processed = issues
        /\ success_count + fail_count = Len(issues)
        /\ success_count = upsert_count

\* C10: whenever no process is running (the last one ended or was killed at
\* any point), the file on disk, if there is one, holds a complete content.
C10_FileNeverPartial == (pc = "idle" /\ file.exists) => file.complete
BotComments(n) == {i \in 1..Len(trackerComments[n]) : trackerComments[n][i].user = BOT}

\* C11: whatever runs and update_comment_on_issue calls were made, and
\* whichever tracker lookups failed, an issue carries at most one comment of
\* the bot.
C11_OneBotComment == \A n \in Issues : Cardinality(BotComments(n)) <= 1

\* C12: during a call of process_single_issue every entry of another issue is
\* where it was and as it was when the call was entered; the directory is
\* that of the entry, with the issue's entry replaced in place or one entry
\* of the issue appended.
C12_OthersUntouched ==
    InCall =>
        /\ Len(data) \in {Len(dataBefore), Len(dataBefore) + 1}
        /\ \A i \in 1..Len(dataBefore) :
              dataBefore[i].issue_number # issue.number => data[i] = dataBefore[i]
        /\ \A i \in 1..Len(data) :
              i > Len(dataBefore) => data[i].issue_number = issue.number

\* an entry was replaced in a directory that holds another issue's entry
\* ahead of it
C12_Witness ==
    /\ pc = "psi_accept_comment"
    /\ Len(dataBefore) = 2
    /\ dataBefore[2].issue_number = issue.number
    /\ dataBefore[1].issue_number # issue.number
    /\ data # dataBefore

\* the order of the steps of a call: the fetch starts only after the probe
\* has returned, and the directory differs from the one at entry only after
\* the fetch has returned posts
StepsInOrder ==
    InCall =>
        /\ fetch.phase # "off" => probe.phase = "returned"
        /\ data # dataBefore => (fetch.phase = "returned" /\ posts # << >>)

\* C13: the steps of a call come in the order parse, probe, fetch, reconcile;
\* a call that has ended returned True exactly when title, url and feed were
\* parsed and the fetch returned a post, and only a call that returns True
\* has changed the directory.
C13_StateMachine ==
    /\ StepsInOrder
    /\ CallEnded =>
          (result = "True" <=>
              (~Lacking(info) /\ fetch.phase = "returned" /\ posts # << >>))
    /\ (InCall /\ data # dataBefore) => result \in {"none", "True"}

\* C14: in the probe, a response with status 200 is the last network attempt
\* and makes the result True; the resolve and the TCP connect of
\* check_website_robust come only after max_retries direct GETs, none of which
\* got a 200; the TCP connect is the last attempt, and the result is True
\* without any 200 only after it.
C14_ShortCircuit ==
    /\ [](attempts.ok200 <= 1)
    /\ [](attempts.ok200 = 1 => (probe.phase = "done" /\ probe.online))
    /\ [](probe.phase = "done" => ~ENABLED ProbeNext)
    /\ [](probe.phase \in {"resolve_tcp", "tcp"} =>
            (attempts.gets = max_retries /\ attempts.ok200 = 0
                /\ attempts.tcp = 0))
    /\ [](attempts.tcp = 1 => (probe.phase = "done" /\ attempts.gets = max_retries))
    /\ []((probe.phase = "done" /\ probe.online /\ attempts.ok200 = 0) =>
            attempts.tcp = 1)

\* every direct GET failed, one of them with its IP-literal GET, and the TCP
\* connect made the site reachable
C14_Witness ==
    /\ probe.phase = "done" /\ probe.online
    /\ attempts.gets = max_retries /\ attempts.ipGets = 1
    /\ attempts.ok200 = 0 /\ attempts.tcp = 1

\* C15: fetch_rss_with_fallback resolves the host and makes its IP-literal GET
\* only after a direct GET that failed on name resolution.
C15_IpFetchOnlyOnDnsFailure ==
    fetch.phase \in {"resolve", "ipget"} =>
        fetch.directFail = "NameResolutionError"

\* C16 as stated: over one call of check_website_robust at most one GET to
\* the IP-literal URL is made.
C16_OneIpGetPerCall == attempts.ipGets <= 1

\* C16 as amended: the probe makes at most one IP-literal GET per direct GET,
\* so at most max_retries of them in one call; each comes right after a
\* resolve_domain that returned an address, and that resolve right after a
\* direct GET that failed on name resolution.
C16_OneIpGetPerAttempt ==
    /\ [](attempts.ipGets <= attempts.gets /\ attempts.ipGets <= max_retries)
    /\ [](attempts.ipGets <= attempts.resolves)
    /\ [][probe'.phase = "ipget" => probe.phase = "resolve_retry"]_vars
    /\ [][probe'.phase = "resolve_retry" => probe.phase = "get"]_vars
    /\ [][attempts'.ipGets # attempts.ipGets =>
            (probe.phase = "ipget" /\ attempts'.ipGets = attempts.ipGets + 1)]_vars

\* every direct GET failed on name resolution and was repeated by IP; the
\* last IP-literal GET got the 200
C16_Witness ==
    /\ probe.phase = "done" /\ probe.online
    /\ attempts.gets = max_retries /\ attempts.ipGets = max_retries
    /\ attempts.ok200 = 1 /\ attempts.tcp = 0

\* C17: a process loads the directory when it starts and at no other time;
\* the file is written only by save_data; save_data is entered from the end
\* of main only, in batch mode after the whole list was processed, and is
\* never entered twice; a process that is not killed ends only by
\* completing the save of its directory.
C17_LoadOnceSaveOnce ==
    /\ [][run' # run => (pc = "idle" /\ (pc' # "idle" => data' = load_data(file)))]_vars
    /\ [][file' # file => pc \in {"save_open", "save_dump"}]_vars
    /\ [][pc' = "save" =>
            (pc \in {"single_get", "psi_return", "psi_raise", "loop"})]_vars
    /\ [][(pc' = "save" /\ ~IsSingle) =>
            (pc = "loop" /\ idx > Len(issues) /\ processed = issues)]_vars
    /\ [][pc' = "save_open" => pc = "save"]_vars
    /\ [][(pc \in {"save_open", "save_dump"}) =>
            (pc' = "save_dump" \/ pc' = "idle")]_vars
    /\ [][(pc # "idle" /\ pc' = "idle") =>
            \/ faults' = faults + 1
            \/ pc = "save_dump" /\ file'.complete /\ file'.content = data]_vars

\* single mode: the call raised after its upsert (no request failed, the
\* labels were never updated) and the directory is being saved
C17_Witness ==
    /\ pc = "save_dump" /\ IsSingle
    /\ faults = 0 /\ processed = <<ISSUE_NUMBER>> /\ upsert_count = 1
    /\ trackerLabels[ISSUE_NUMBER] = InitialLabels(ISSUE_NUMBER)
    /\ Len(file.content) = 1

\* the posts of every entry of the directory: between 1 and max_posts of them
PostsWithinBound ==
    \A i \in 1..Len(data) :
        Len(data[i].posts) >= 1 /\ Len(data[i].posts) <= max_posts

\* the posts of every entry of the directory: no post with a parsed time is
\* ahead of one with a later parsed time
PostsNewestFirst ==
    \A i \in 1..Len(data) :
        \A j, k \in 1..Len(data[i].posts) :
            (j < k /\ data[i].posts[j].published.fmt = "canon"
                   /\ data[i].posts[k].published.fmt = "canon")
               => data[i].posts[j].published.v >= data[i].posts[k].published.v

\* C18: every entry of the directory has between 1 and max_posts posts, most
\* recent first.
C18_PostsBoundedNewestFirst == PostsWithinBound /\ PostsNewestFirst

\* during a call every issue that had an entry when the call was entered
\* still has one
EntriesKept ==
    InCall =>
        \A i \in 1..Len(dataBefore) :
            EntriesOf(data, dataBefore[i].issue_number) # {}

\* C19: no call removes an entry; a call that returned False for an issue
\* that had an entry left the directory as it was, and (no request having
\* failed) the issue no longer carries the approved label.
C19_RejectedKeepsEntryLosesApproved ==
    /\ EntriesKept
    /\ (pc = "psi_return" /\ result = "False"
           /\ EntriesOf(dataBefore, issue.number) # {}) =>
          /\ data = dataBefore
          /\ faults = 0 =>
                ~HasLabel(trackerLabels[issue.number], LABEL_APPROVED)

\* C20: when the label update of an accepted call succeeds, the status labels
\* of the issue are the approved label and one reachability label, 'online'
\* if the entry's online flag is true and 'restricted' if it is false; the
\* entry's labels are those the issue had before the update.
C20_LabelsAfterAccept ==
    [][(pc = "psi_accept_labels" /\ pc' = "psi_return" /\ faults' = faults) =>
          LET n == issue.number
          IN  /\ result' = "True"
              /\ EntriesOf(data', n) # {}
              /\ \A i \in EntriesOf(data', n) :
                    /\ LabelSet(trackerLabels'[n]) \cap STATUS_LABELS
                          = {LABEL_APPROVED,
                             IF data'[i].online THEN LABEL_ONLINE
                             ELSE LABEL_RESTRICTED}
                    /\ data'[i].labels = trackerLabels[n]
              /\ ~(HasLabel(trackerLabels'[n], LABEL_ONLINE)
                     /\ HasLabel(trackerLabels'[n], LABEL_RESTRICTED))]_vars

\* an unreachable site was accepted: the issue lost 'pending' and carries
\* 'restricted' and 'approved', the entry has the labels from before
C20_Witness ==
    /\ pc = "psi_return" /\ result = "True" /\ faults = 0
    /\ ~website_online
    /\ LabelSet(trackerLabels[issue.number])
          = {APP_LABEL, "custom", LABEL_RESTRICTED, LABEL_APPROVED}
    /\ \E i \in EntriesOf(data, issue.number) :
          data[i].labels = <<"pending", APP_LABEL, "custom">> /\ ~data[i].online
====
